---- MODULE Spec2Model ----
(***************************************************************************)
(* semantic_skeletonizer (src/src/main.rs): the MCP server loop of main,   *)
(* the initial sweep, the watcher task and the Index (a DashMap) they      *)
(* share.                                                                  *)
(*                                                                         *)
(* Strings are modelled as sequences of tokens, so that starts_with,       *)
(* trim_start_matches and format! are computed on them as the code does.   *)
(* An Option is a sequence of length 0 (None) or 1 (Some).                 *)
(***************************************************************************)
EXTENDS Integers, Sequences, FiniteSets, TLC

\* ---------------------------------------------------------------- bounds

\* Number of text lines the client sends on stdin.
MaxLines == 2
\* Number of filesystem changes made while the server runs.
MaxEdits == 2
\* Capacity of the change channel (mpsc::channel::<()>(100) in main), scaled
\* down so that a full channel is reached.
NotifyCap == 1
\* Capacity of the watch-event channel (mpsc::channel(100) in
\* watch_filesystem), scaled down likewise.
WatchCap == 1
\* Number of top-level items of a parsed module.
MaxItems == 2

\* ---------------------------------------------------------------- files

\* The .ts/.tsx files of the working directory, and one other file.
TsFiles == {"a.ts", "b.tsx"}
Files == TsFiles \cup {"n.md"}

\* path.extension()
Extension(f) ==
  CASE f = "a.ts" -> "ts"
    [] f = "b.tsx" -> "tsx"
    [] OTHER -> "md"

\* The extension test of the sweep and of the watcher.
IsTsExt(ext) == ext = "ts" \/ ext = "tsx"

\* WalkBuilder::new(".") yields paths below "./".
WalkPath(f) == <<"./", f>>

\* notify reports paths below the watched directory, which it makes absolute
\* (the current directory joined with ".").
WatchPath(f) == <<"/cwd/./", f>>

\* path.to_string_lossy().to_string(): the Index key of a path.
KeyOf(path) == path

\* Every key the Index can hold, and every shard slot an iteration visits.
AllKeys == {KeyOf(WalkPath(f)) : f \in TsFiles} \cup {KeyOf(WatchPath(f)) : f \in TsFiles}

\* ---------------------------------------------------------------- option

None == <<>>
Some(v) == <<v>>
IsSome(o) == Len(o) = 1
Max(a, b) == IF a >= b THEN a ELSE b

\* ---------------------------------------------------------------- disk and skeletons

\* skeletonize_file / parse_file read the file as it is on disk at that moment:
\* d[f].ok says the file exists and parses, d[f].ver which content it holds.
\* The FileSkeleton of a content is named by the file and the content version.
SkeletonizeAlways(f, d) == Some([file |-> f, ver |-> d[f].ver])
skeletonize_file(f, d) ==
  IF f \in DOMAIN d /\ d[f].ok THEN Some([file |-> f, ver |-> d[f].ver]) ELSE None

\* The file a path string names, None when there is no such file.
FileOfPath(p) ==
  IF Len(p) = 2 /\ p[1] \in {"./", "/cwd/./"} /\ p[2] \in Files THEN Some(p[2])
  ELSE IF Len(p) = 1 /\ p[1] \in Files THEN Some(p[1])
  ELSE None

\* get_implementation(path, _target_node): parse the file afresh, dump the AST.
get_implementation(p, d) ==
  LET f == FileOfPath(p) IN
  IF IsSome(f) /\ f[1] \in DOMAIN d /\ d[f[1]].ok
    THEN Some([ast |-> f[1], ver |-> d[f[1]].ver])
    ELSE None

\* DashMap::insert: insert or replace.
InsertNothing(g, k, v) == g
Insert(g, k, v) == [x \in DOMAIN g \cup {k} |-> IF x = k THEN v ELSE g[x]]

EmptyGraph == [x \in {} |-> x]

\* ---------------------------------------------------------------- URIs

GlobalUri == <<"skeleton://project/global">>
FilePrefix == <<"skeleton://project/file/">>
OtherUri == <<"file:///etc/passwd">>

\* str::starts_with
StartsWith(s, p) == Len(s) >= Len(p) /\ SubSeq(s, 1, Len(p)) = p

\* str::strip_prefix, where the prefix is there.
StripPrefix(s, p) == SubSeq(s, Len(p) + 1, Len(s))

\* str::trim_start_matches: the prefix is removed repeatedly.
RECURSIVE TrimStartMatches(_, _)
TrimStartMatches(s, p) ==
  IF Len(p) > 0 /\ StartsWith(s, p) THEN TrimStartMatches(StripPrefix(s, p), p) ELSE s

\* format!("skeleton://project/file/{}", path)
FileUri(key) == FilePrefix \o key

\* The URIs a client sends in the model.
UriSet ==
  {GlobalUri, OtherUri}
    \cup {FileUri(KeyOf(WalkPath("a.ts"))), FileUri(KeyOf(WatchPath("a.ts")))}
    \cup {FilePrefix \o FileUri(KeyOf(WalkPath("a.ts")))}

\* The file_path arguments a client sends in the model.
PathArgs == {KeyOf(WalkPath("a.ts"))}

\* ---------------------------------------------------------------- stdin lines

\* A stdin line as the client wrote it. kind: "request" (a JSON object that
\* deserializes as a Request), "malformed" (not JSON, or not a Request),
\* "blank" (whitespace only). id: None when the member is absent, Some(0)
\* for JSON null, Some(n) for a number.
JsonNull == Some(0)

Params(uri, name, arguments) == [uri |-> uri, name |-> name, arguments |-> arguments]
Arguments(fp) == [file_path |-> fp]

ParamsSet ==
  {None, Some(Params(None, None, None))}
    \cup {Some(Params(Some(u), None, None)) : u \in UriSet}

ToolParamsSet ==
  {None, Some(Params(None, None, None)), Some(Params(None, Some("nope"), None))}
    \cup {Some(Params(None, Some(t), None)) : t \in {"get_implementation", "list_functions"}}
    \cup {Some(Params(None, Some(t), Some(Arguments(fp)))) :
            t \in {"get_implementation", "list_functions"},
            fp \in {None} \cup {Some(p) : p \in PathArgs}}

RequestLine(id, method, params) ==
  [kind |-> "request", id |-> id, method |-> method, params |-> params]

MalformedLine == [kind |-> "malformed", id |-> None, method |-> "", params |-> None]
BlankLine == [kind |-> "blank", id |-> None, method |-> "", params |-> None]

\* The lines a client sends as line n in the model. A request carries the
\* number of its line as id; some are sent without id as well, one with a
\* null id.
LineSet(n) ==
  {MalformedLine, BlankLine, RequestLine(JsonNull, "initialize", None)}
    \cup {RequestLine(Some(n), m, None) :
            m \in {"initialize", "resources/list", "tools/list", "bogus"}}
    \cup {RequestLine(Some(n), "resources/read", p) : p \in ParamsSet}
    \cup {RequestLine(Some(n), "tools/call", p) : p \in ToolParamsSet}
    \cup {RequestLine(None, "initialize", None),
          RequestLine(None, "resources/list", None),
          RequestLine(None, "bogus", None),
          RequestLine(None, "resources/read", None),
          RequestLine(None, "resources/read", Some(Params(Some(GlobalUri), None, None))),
          RequestLine(None, "tools/call", Some(Params(None, Some("nope"), None)))}

\* What is left of a line whose first bytes a dropped read_line future took.
RemainderSet == {MalformedLine, BlankLine}

\* The lines the client wrote as line n of which the bytes still to read are
\* the remainder rem: the tail of a request is not a JSON document, the tail
\* of a blank line is blank.
SentSet(rem, n) ==
  IF rem.kind = "blank" THEN {BlankLine}
  ELSE {MalformedLine, RequestLine(Some(n), "initialize", None)}

\* stdin.read_line(&mut line) appends the line to the buffer.
read_line(buf, l) == Append(buf, l)

\* line.clear()
KeepLine(buf) == buf
ClearLine(buf) == <<>>

\* line.trim(): the buffer without its blank lines.
Trim(buf) == SelectSeq(buf, LAMBDA x : x.kind # "blank")

\* serde_json::from_str::<Request>(&line): one JSON document, surrounded by
\* whitespace at most; an absent or null id deserializes as None.
ParseRequest(buf) ==
  LET t == Trim(buf) IN
  IF Len(t) = 1 /\ t[1].kind = "request"
    THEN Some([id |-> IF t[1].id = JsonNull THEN None ELSE t[1].id,
               method |-> t[1].method,
               params |-> t[1].params])
    ELSE None

\* ---------------------------------------------------------------- responses

Error(code, message) == [code |-> code, message |-> message]

\* The (response_value, error_value) pair a branch of the dispatch leaves.
Outcome(result, error) == [result |-> result, error |-> error]
Neither == Outcome(None, None)
Result(v) == Outcome(Some(v), None)
Fail(code, message) == Outcome(None, Some(Error(code, message)))

\* serde_json::to_string(&Response {..}): "id" is always written (null for
\* None); "result" and "error" are skipped when None.
ResponseJson(id, result, error) ==
  [m \in {"jsonrpc", "id"}
          \cup (IF IsSome(result) THEN {"result"} ELSE {})
          \cup (IF IsSome(error) THEN {"error"} ELSE {}) |->
     CASE m = "jsonrpc" -> <<"2.0">>
       [] m = "id" -> id
       [] m = "result" -> result
       [] m = "error" -> error]

\* serde_json::to_string(&Notification {..})
NotificationJson ==
  [m \in {"jsonrpc", "method", "params"} |->
     CASE m = "jsonrpc" -> <<"2.0">>
       [] m = "method" -> <<"notifications/resources/updated">>
       [] m = "params" -> <<[uri |-> GlobalUri]>>]

IsResponse(j) == "id" \in DOMAIN j
IsNotification(j) == "method" \in DOMAIN j

\* The response of the parse error branch.
ParseErrorJson == ResponseJson(None, None, Some(Error(-32700, "Parse error")))

\* if let Some(id) = req.id { write the Response }: the line written, if any.
EmitAlways(req, o) == Some(ResponseJson(req.id, o.result, o.error))
Emit(req, o) ==
  IF IsSome(req.id) THEN Some(ResponseJson(req.id, o.result, o.error)) ELSE None

\* ---------------------------------------------------------------- dispatch

\* "initialize"
InitializeResult == [protocolVersion |-> "2024-11-05", serverInfo |-> "semantic-skeletonizer"]

\* "tools/list"
ToolsListResult == [tools |-> <<"get_implementation", "list_functions">>]

\* The entries an iteration of the Index yielded, in the order yielded: the
\* keys, and the map collected from them.
YieldedKeys(acc) == [i \in 1..Len(acc) |-> acc[i][1]]
Collect(acc) ==
  [k \in {acc[i][1] : i \in 1..Len(acc)} |->
     acc[CHOOSE i \in 1..Len(acc) :
           acc[i][1] = k /\ \A j \in (i + 1)..Len(acc) : acc[j][1] # k][2]]

\* "resources/list": the global resource, then one resource per entry yielded.
ResourcesOmitGlobal(acc) == [resources |-> [i \in 1..Len(acc) |-> FileUri(acc[i][1])]]
ResourcesListResult(acc) ==
  [resources |-> <<GlobalUri>> \o [i \in 1..Len(acc) |-> FileUri(acc[i][1])]]

\* serde_json::to_string(&graph) of the collected HashMap: a JSON object, its
\* members in no particular order.
GraphJson(acc) ==
  LET m == Collect(acc) IN {<<k, m[k]>> : k \in DOMAIN m}

\* "resources/read" of the global URI, the Index not empty.
GlobalReadResult(acc) == [uri |-> GlobalUri, mimeType |-> "application/json", map |-> GraphJson(acc)]

\* The Index key a file URI is looked up with.
PathOfUri(uri) == TrimStartMatches(uri, FilePrefix)

\* state.skeleton_graph.is_empty()
NeverEmpty(g) == FALSE
is_empty(g) == DOMAIN g = {}

\* "resources/read"
ResourcesRead(params, g) ==
  IF ~IsSome(params) \/ ~IsSome(params[1].uri) THEN Neither
  ELSE LET uri == params[1].uri[1] IN
    IF uri = GlobalUri
      \* is_empty() said true; when it says false the branch iterates (Iterates)
      THEN Fail(-32603, "Graph is empty. No files scanned or found.")
    ELSE IF StartsWith(uri, FilePrefix)
      THEN LET path == PathOfUri(uri) IN
           IF path \in DOMAIN g
             THEN Result([uri |-> uri, mimeType |-> "application/json", skeleton |-> g[path]])
             ELSE Fail(-32602, "File not found in graph.")
    ELSE Fail(-32602, "Invalid URI scheme for resource.")

\* unwrap_or(""): the empty string for an absent or non-string member.
UnwrapOrEmpty(o) == IF IsSome(o) THEN o[1] ELSE <<>>

\* "tools/call"
ToolsCall(params, g, d) ==
  IF ~IsSome(params) THEN Neither
  ELSE LET name == IF IsSome(params[1].name) THEN params[1].name[1] ELSE ""
           args == params[1].arguments
       IN
    IF name = "get_implementation"
      THEN IF ~IsSome(args) THEN Neither
           ELSE LET ast == get_implementation(UnwrapOrEmpty(args[1].file_path), d) IN
                IF IsSome(ast)
                  THEN Result([type |-> "text", dump |-> ast[1]])
                  ELSE Fail(-32603, "Failed to extract implementation")
    ELSE IF name = "list_functions"
      THEN IF ~IsSome(args) THEN Neither
           ELSE LET p == UnwrapOrEmpty(args[1].file_path) IN
                IF p \in DOMAIN g
                  THEN Result([type |-> "text", functions |-> g[p]])
                  ELSE Fail(-32602, "File not found in graph.")
    ELSE Fail(-32601, "Method not found")

\* Whether the request iterates the Index (state.skeleton_graph.iter()), which
\* is not atomic with respect to the watcher: "resources/list", and
\* "resources/read" of the global URI when is_empty() says false.
Iterates(req, g) ==
  \/ req.method = "resources/list"
  \/ /\ req.method = "resources/read"
     /\ IsSome(req.params)
     /\ IsSome(req.params[1].uri)
     /\ req.params[1].uri[1] = GlobalUri
     /\ ~is_empty(g)

\* match req.method.as_str() { .. }, for the requests that do not iterate.
Dispatch(req, g, d) ==
  CASE req.method = "initialize" -> Result(InitializeResult)
    [] req.method = "resources/read" -> ResourcesRead(req.params, g)
    [] req.method = "tools/list" -> Result(ToolsListResult)
    [] req.method = "tools/call" -> ToolsCall(req.params, g, d)
    [] OTHER -> Fail(-32601, "Method not found")

\* The Index a request leaves: the dispatch calls is_empty, iter and get on
\* state.skeleton_graph, and get_implementation parses the file without the
\* Index; no branch inserts.
IndexAfterCaching(req, g, d) ==
  IF req.method = "tools/call" /\ IsSome(Dispatch(req, g, d).result)
       /\ req.params[1].name = Some("get_implementation")
    THEN LET p == UnwrapOrEmpty(req.params[1].arguments[1].file_path)
         IN Insert(g, p, skeletonize_file(FileOfPath(p)[1], d)[1])
    ELSE g
IndexAfter(req, g, d) == g

\* The outcome of a request that iterated, from the entries yielded.
IterOutcome(req, acc) ==
  IF req.method = "resources/list"
    THEN Result(ResourcesListResult(acc))
    ELSE Result(GlobalReadResult(acc))

\* ---------------------------------------------------------------- the AST

\* A node of the swc AST, as far as the Skeletonizer and extract_ir look at
\* it. kind: the variant of ModuleItem/ModuleDecl/Decl for a top-level item,
\* or the node type below it. src: the module source of an import (a string,
\* as tokens). kids: the child nodes that are not a body (class members,
\* initializers, parameter defaults, the declaration of an export, the items
\* of a namespace). body: the body, of the kinds that have one.
Node(kind, src, kids, body) == [kind |-> kind, src |-> src, kids |-> kids, body |-> body]

\* Option<BlockStmt> / BlockStmtOrExpr: no body, a block of statements, or the
\* expression of a concise arrow.
NoBody == <<>>
Block(stmts) == <<"block", stmts>>
Concise(e) == <<"expr", <<e>>>>

\* The node types that hold a swc `Function`: FnDecl, FnExpr, ClassMethod
\* (methods, getters and setters of a class), PrivateMethod, MethodProp.
\* Constructor, GetterProp and SetterProp hold an Option<BlockStmt> of their
\* own and no Function.
HoldsFunction(kind) == kind \in {"Fn", "FnExpr", "ClassMethod", "PrivateMethod", "MethodProp"}

\* The six fields of FileSkeleton.
Fields == {"imports", "exports", "functions", "interfaces", "classes", "variables"}

\* FileSkeleton::default()
DefaultSkeleton == [f \in Fields |-> <<>>]

\* format!("{:?}", import.src.value): the string between double quotes.
DebugFormat(s) == <<"\"">> \o s \o <<"\"">>

\* str::contains, for the substrings the model's strings keep as tokens.
Contains(s, t) == \E i \in 1..Len(s) : s[i] = t

\* The test of items.retain(..) on the source of an import.
IsStyleSrc(src) ==
  LET s == DebugFormat(src) IN
  Contains(s, ".css") \/ Contains(s, ".scss") \/ Contains(s, ".svg")

\* The items retain(..) keeps: every item but an ES import of a style source.
Retained(item) == ~(item.kind = "Import" /\ IsStyleSrc(item.src))

\* if let Some(body) = &mut n.body { body.stmts.clear(); }
ClearStmts(b) == IF b = NoBody THEN NoBody ELSE Block(<<>>)

\* impl VisitMut for Skeletonizer: visit_mut_function and
\* visit_mut_class_method visit the children and clear the statements of the
\* Function's body; visit_mut_arrow_expr visits the children and replaces the
\* body by an empty block; visit_mut_module_items (the module body, and the
\* body of a namespace) drops the style imports and visits the rest; every
\* other node is visited by the default visitor, which visits its children.
RECURSIVE VisitNode(_)
RECURSIVE visit_mut_module_items(_)
VisitSeq(s) == [i \in 1..Len(s) |-> VisitNode(s[i])]
VisitChildren(n) ==
  [n EXCEPT !.kids = IF n.kind = "TsModule" THEN visit_mut_module_items(@) ELSE VisitSeq(@),
            !.body = IF @ = NoBody THEN NoBody ELSE <<@[1], VisitSeq(@[2])>>]
VisitNode(n) ==
  LET c == VisitChildren(n) IN
  IF HoldsFunction(n.kind) THEN [c EXCEPT !.body = ClearStmts(@)]
  ELSE IF n.kind = "Arrow" THEN [c EXCEPT !.body = Block(<<>>)]
  ELSE c
visit_mut_module_items(items) == VisitSeq(SelectSeq(items, Retained))

\* stringify_item: the emitter prints the node, here as the tokens of its
\* kind, its source, its children and its body.
RECURSIVE stringify_item(_)
RECURSIVE PrintSeq(_)
PrintSeq(s) == IF s = <<>> THEN <<>> ELSE stringify_item(Head(s)) \o PrintSeq(Tail(s))
stringify_item(n) ==
  <<n.kind>> \o n.src \o PrintSeq(n.kids)
    \o (IF n.body = NoBody THEN <<>>
        ELSE IF n.body[1] = "block" THEN <<"{">> \o PrintSeq(n.body[2]) \o <<"}">>
        ELSE <<"=>">> \o PrintSeq(n.body[2]))

\* The match of extract_ir: the field an item of that kind is pushed to, ""
\* for Decl::Using and for every statement that is not a declaration.
RouteEnumToVariables(kind) ==
  CASE kind \in {"Import", "TsImportEquals"} -> "imports"
    [] kind \in {"ExportDecl", "ExportNamed", "ExportDefaultDecl", "ExportDefaultExpr",
                 "ExportAll", "TsExportAssignment", "TsNamespaceExport"} -> "exports"
    [] kind = "Class" -> "classes"
    [] kind = "Fn" -> "functions"
    [] kind \in {"Var", "TsEnum"} -> "variables"
    [] kind \in {"TsInterface", "TsTypeAlias", "TsModule"} -> "interfaces"
    [] OTHER -> ""
Route(kind) ==
  CASE kind \in {"Import", "TsImportEquals"} -> "imports"
    [] kind \in {"ExportDecl", "ExportNamed", "ExportDefaultDecl", "ExportDefaultExpr",
                 "ExportAll", "TsExportAssignment", "TsNamespaceExport"} -> "exports"
    [] kind = "Class" -> "classes"
    [] kind = "Fn" -> "functions"
    [] kind = "Var" -> "variables"
    [] kind \in {"TsInterface", "TsTypeAlias", "TsEnum", "TsModule"} -> "interfaces"
    [] OTHER -> ""

\* extract_ir: every item is pushed, printed, to the field of its kind, in the
\* order of module.body.
extract_ir(items) ==
  [f \in Fields |->
     LET routed == SelectSeq(items, LAMBDA it : Route(it.kind) = f)
     IN [i \in 1..Len(routed) |-> stringify_item(routed[i])]]

\* ---------------------------------------------------------------- the modules parsed

\* Nodes below the top level.
Stmt == Node("Stmt", <<>>, <<>>, NoBody)
Expr == Node("Expr", <<>>, <<>>, NoBody)
ArrowConcise == Node("Arrow", <<>>, <<>>, Concise(Expr))
ArrowBlock == Node("Arrow", <<>>, <<>>, Block(<<Stmt>>))
\* a statement with an arrow in it, whose body has a function expression in it
StmtWithArrow ==
  Node("Stmt", <<>>,
       <<Node("Arrow", <<>>, <<>>,
              Block(<<Node("Stmt", <<>>, <<Node("FnExpr", <<>>, <<>>, Block(<<Stmt>>))>>, NoBody)>>))>>,
       NoBody)
ClassMethod == Node("ClassMethod", <<>>, <<>>, Block(<<StmtWithArrow, Stmt>>))
\* an abstract method or an overload signature: no body
ClassMethodSig == Node("ClassMethod", <<>>, <<>>, NoBody)
PrivateMethod == Node("PrivateMethod", <<>>, <<>>, Block(<<Stmt>>))
Constructor == Node("Constructor", <<>>, <<>>, Block(<<Stmt>>))
ClassProp == Node("ClassProp", <<>>, <<ArrowConcise>>, NoBody)

\* Top-level items.
ImportOf(src) == Node("Import", src, <<>>, NoBody)
ImportEqualsOf(src) == Node("TsImportEquals", src, <<>>, NoBody)
FnDecl == Node("Fn", <<>>, <<ArrowBlock>>, Block(<<Stmt, StmtWithArrow>>))
FnOverload == Node("Fn", <<>>, <<>>, NoBody)
ClassDecl == Node("Class", <<>>, <<ClassProp, ClassMethod, ClassMethodSig, PrivateMethod>>, NoBody)
ClassWithConstructor == Node("Class", <<>>, <<Constructor, ClassMethod>>, NoBody)
VarDecl == Node("Var", <<>>, <<ArrowConcise>>, NoBody)
UsingDecl == Node("Using", <<>>, <<Expr>>, NoBody)

\* The top-level items of the modules of the model: one or more of every
\* variant extract_ir matches on.
ItemSet ==
  {ImportOf(<<"react">>), ImportOf(<<"./x", ".css">>), ImportOf(<<"./s", ".scss">>),
   ImportOf(<<"./i", ".svg">>), ImportOf(<<"my", ".css", "-loader">>),
   ImportEqualsOf(<<"fs">>), ImportEqualsOf(<<"./x", ".css">>),
   Node("ExportDecl", <<>>, <<FnDecl>>, NoBody),
   Node("ExportNamed", <<"./x", ".css">>, <<>>, NoBody),
   Node("ExportDefaultDecl", <<>>, <<ClassDecl>>, NoBody),
   Node("ExportDefaultExpr", <<>>, <<ArrowConcise>>, NoBody),
   Node("ExportAll", <<"./m">>, <<>>, NoBody),
   Node("TsExportAssignment", <<>>, <<Expr>>, NoBody),
   Node("TsNamespaceExport", <<>>, <<>>, NoBody),
   ClassDecl, ClassWithConstructor, FnDecl, FnOverload, VarDecl,
   Node("TsInterface", <<>>, <<>>, NoBody),
   Node("TsTypeAlias", <<>>, <<>>, NoBody),
   Node("TsEnum", <<>>, <<>>, NoBody),
   Node("TsModule", <<>>, <<ImportOf(<<"./x", ".css">>), FnDecl>>, NoBody),
   UsingDecl, StmtWithArrow}

\* The modules parse_file returns in the model: up to MaxItems items.
ModuleSet == UNION {[1..n -> ItemSet] : n \in 0..MaxItems}

\* ---------------------------------------------------------------- state

VARIABLES
  pc,        \* main: "sweep", "spawn", "loop", "iter", "respond", "done" (Ok),
             \* "crashed" (Err)
  todo,      \* the files perform_initial_sweep has still to walk
  graph,     \* state.skeleton_graph, the Index
  disk,      \* the .ts/.tsx files on disk: [ver, ok]
  nEdits,    \* filesystem changes so far
  wpc,       \* watcher task: "off", "start", "recv", "paths", "send", "failed"
  watchQ,    \* watch_tx/watch_rx: events the notify callback sent
  cur,       \* the paths of the event the watcher task is still to handle
  changed,   \* the watcher task's `changed`
  batch,     \* (history) the <<key, version>> pairs the current event inserted
  notifyQ,   \* notify_tx/notify_rx: the change ticks, each with its batch
  nRead,     \* lines read_line has returned
  lost,      \* a dropped read_line future took the first bytes of the next line
  line,      \* the String `line`
  iter,      \* the iteration of the Index the request in hand makes, or None
  turn,      \* the line in hand, dispatched and not yet answered, or None
  nOut,      \* lines written to stdout
  nNotif,    \* notifications written to stdout
  nTicks,    \* ticks the watcher task sent
  notified,  \* (history) per key, the newest version a written notification was for
  nLog,      \* lines the tracing subscriber wrote to stdout
  nDropped,  \* (history) events the watcher task received and did not handle
  nInserting,  \* (history) modify events that inserted an entry into the Index
  parsed,    \* skeletonize_file: the module parse_file returned
  ast,       \* skeletonize_file: `module`, which the Skeletonizer mutates
  stage,     \* skeletonize_file: "idle", "parsed", "visited", "extracted"
  ir         \* skeletonize_file: the FileSkeleton extract_ir returns

serverVars == <<pc, todo, graph, disk, nEdits, wpc, watchQ, cur, changed, batch, notifyQ,
                nRead, lost, line, iter, turn, nOut, nNotif, nTicks, notified, nLog, nDropped,
                nInserting>>
skelVars == <<parsed, ast, stage, ir>>
vars == <<serverVars, skelVars>>

mainVars == <<pc, todo, nRead, lost, line, iter, turn, nOut, nNotif, notified>>
watcherVars == <<wpc, cur, changed, batch, nTicks, nLog, nDropped, nInserting>>

\* main starts with tracing setup, AppState::new() and the sweep.
MainEntrySkipsSweep == "spawn"
MainEntry == "sweep"

ServerInit ==
  /\ pc = MainEntry
  /\ todo = Files
  /\ graph = EmptyGraph
  /\ \E ok \in BOOLEAN : disk = [f \in TsFiles |-> [ver |-> 0, ok |-> ok]]
  /\ nEdits = 0
  /\ wpc = "off"
  /\ watchQ = <<>>
  /\ cur = <<>>
  /\ changed = FALSE
  /\ batch = {}
  /\ notifyQ = <<>>
  /\ nRead = 0
  /\ lost = FALSE
  /\ line = <<>>
  /\ iter = None
  /\ turn = None
  /\ nOut = 0
  /\ nNotif = 0
  /\ nTicks = 0
  /\ notified = [k \in AllKeys |-> -1]
  /\ nLog = 0
  /\ nDropped = 0
  /\ nInserting = 0

\* No file is being skeletonized.
SkelIdle ==
  /\ parsed = <<>>
  /\ ast = <<>>
  /\ stage = "idle"
  /\ ir = DefaultSkeleton

Init == ServerInit /\ SkelIdle

\* The server loop is running, and not between the dispatch of a request and
\* its response. (What is left of the handler then, the write and
\* line.clear(), touches nothing the watcher task or the filesystem share
\* with it, so their steps are taken before or after.)
Concurrent == pc \in {"loop", "iter"}

\* (history) The graphs the Index held while the current request iterated it.
Observe(g) ==
  IF IsSome(iter) THEN Some([iter[1] EXCEPT !.hist = @ \cup {g}]) ELSE iter

\* ---------------------------------------------------------------- initial sweep

\* One file of perform_initial_sweep's walk; the sweep returns after the last.
SweepFile(f) ==
  /\ pc = "sweep"
  /\ f \in todo
  /\ LET sk == IF IsTsExt(Extension(f)) THEN skeletonize_file(f, disk) ELSE None IN
       graph' = IF IsSome(sk) THEN Insert(graph, KeyOf(WalkPath(f)), sk[1]) ELSE graph
  /\ todo' = todo \ {f}
  /\ pc' = IF todo' = {} THEN "spawn" ELSE "sweep"
  /\ UNCHANGED <<disk, nEdits, wpc, watchQ, cur, changed, batch, notifyQ, nRead, lost,
                 line, iter, turn, nOut, nNotif, nTicks, notified, nLog, nDropped,
                 nInserting>>
  /\ UNCHANGED skelVars

\* mpsc::channel(100), tokio::spawn(watch_filesystem), stdin, stdout, line.
SpawnWatcher ==
  /\ pc = "spawn"
  /\ pc' = "loop"
  /\ wpc' = "start"
  /\ UNCHANGED <<todo, graph, disk, nEdits, watchQ, cur, changed, batch, notifyQ, nRead,
                 lost, line, iter, turn, nOut, nNotif, nTicks, notified, nLog, nDropped,
                 nInserting>>
  /\ UNCHANGED skelVars

\* ---------------------------------------------------------------- filesystem

Range(s) == {s[i] : i \in 1..Len(s)}

\* The watch events of the model: the EventKind notify gives the event and
\* the files it names. A write of the content is Modify(Data), a rename is
\* Modify(Name), a new file is Create.
EventSet ==
  {[kind |-> "Modify(Data)", files |-> <<"a.ts">>],
   [kind |-> "Modify(Data)", files |-> <<"b.tsx", "n.md", "a.ts">>],
   [kind |-> "Modify(Name)", files |-> <<"a.ts">>],
   [kind |-> "Create", files |-> <<"a.ts">>]}

\* if let EventKind::Modify(_) = event.kind
MatchesAnyKind(kind) == TRUE
IsModify(kind) == kind \in {"Modify(Data)", "Modify(Name)"}

\* The watch is established: the notify callback forwards events.
Watching == wpc \in {"recv", "paths", "send"}

\* While the server runs, the files of an event change on disk: each gets a
\* new content; the first of them parses or not (ok), the others do. With the
\* watch established the notify callback sends the event (blocking_send waits
\* for room).
FsChange(e, ok) ==
  /\ Concurrent
  /\ nEdits < MaxEdits
  /\ Watching => Len(watchQ) < WatchCap
  /\ nEdits' = nEdits + 1
  /\ disk' = [f \in TsFiles |->
                IF f \in Range(e.files)
                  THEN [ver |-> disk[f].ver + 1, ok |-> (ok \/ f # e.files[1])]
                  ELSE disk[f]]
  /\ watchQ' = IF Watching
                 THEN Append(watchQ,
                             [kind |-> e.kind,
                              paths |-> [i \in 1..Len(e.files) |-> WatchPath(e.files[i])]])
                 ELSE watchQ
  /\ UNCHANGED <<graph, notifyQ>>
  /\ UNCHANGED mainVars
  /\ UNCHANGED watcherVars
  /\ UNCHANGED skelVars

\* ---------------------------------------------------------------- watcher task

\* notify::recommended_watcher(..)? and watcher.watch(".", Recursive)?: either
\* can fail, and watch_filesystem then returns the error, which the spawned
\* task logs with tracing::error!. The subscriber tracing_subscriber::fmt::init()
\* installed writes its lines to stdout. main goes on.
WatcherStart(ok) ==
  /\ Concurrent
  /\ wpc = "start"
  /\ wpc' = IF ok THEN "recv" ELSE "failed"
  /\ nLog' = IF ok THEN nLog ELSE nLog + 1
  /\ UNCHANGED <<graph, disk, nEdits, watchQ, cur, changed, batch, notifyQ, nTicks, nDropped,
                 nInserting>>
  /\ UNCHANGED mainVars
  /\ UNCHANGED skelVars

\* Where the watcher task goes after the paths of an event: `if changed`.
AfterPathsAlwaysSend(chg) == "send"
AfterPaths(chg) == IF chg THEN "send" ELSE "recv"

\* watch_rx.recv().await, and the test of the event's kind.
WatcherRecv ==
  /\ Concurrent
  /\ wpc = "recv"
  /\ watchQ # <<>>
  /\ watchQ' = Tail(watchQ)
  /\ IF IsModify(Head(watchQ).kind)
       THEN /\ wpc' = "paths"
            /\ cur' = Head(watchQ).paths
            /\ changed' = FALSE
            /\ batch' = {}
            /\ nDropped' = nDropped
       ELSE /\ nDropped' = nDropped + 1
            /\ UNCHANGED <<wpc, cur, changed, batch>>
  /\ UNCHANGED <<graph, disk, nEdits, notifyQ, nTicks, nLog, nInserting>>
  /\ UNCHANGED mainVars
  /\ UNCHANGED skelVars

\* One path of `for path in event.paths`.
WatcherPath ==
  /\ Concurrent
  /\ wpc = "paths"
  /\ cur # <<>>
  /\ LET path == Head(cur)
         f == path[Len(path)]
         sk == IF IsTsExt(Extension(f)) THEN skeletonize_file(f, disk) ELSE None
     IN /\ graph' = IF IsSome(sk) THEN Insert(graph, KeyOf(path), sk[1]) ELSE graph
        /\ changed' = (changed \/ IsSome(sk))
        /\ nInserting' = IF IsSome(sk) /\ batch = {} THEN nInserting + 1 ELSE nInserting
        /\ batch' = IF IsSome(sk) THEN batch \cup {<<KeyOf(path), sk[1].ver>>} ELSE batch
  /\ cur' = Tail(cur)
  /\ wpc' = IF cur' = <<>> THEN AfterPaths(changed') ELSE "paths"
  /\ iter' = Observe(graph')
  /\ UNCHANGED <<disk, nEdits, watchQ, notifyQ, nTicks, nLog, nDropped>>
  /\ UNCHANGED <<pc, todo, nRead, lost, line, turn, nOut, nNotif, notified>>
  /\ UNCHANGED skelVars

\* tx.send(()).await: waits while the change channel is full.
WatcherSend ==
  /\ Concurrent
  /\ wpc = "send"
  /\ Len(notifyQ) < NotifyCap
  /\ notifyQ' = Append(notifyQ, batch)
  /\ nTicks' = nTicks + 1
  /\ wpc' = "recv"
  /\ UNCHANGED <<graph, disk, nEdits, watchQ, cur, changed, batch, nLog, nDropped,
                 nInserting>>
  /\ UNCHANGED mainVars
  /\ UNCHANGED skelVars

\* ---------------------------------------------------------------- server loop

\* (history) The newest version of key k among the pairs of a tick, -1 when none.
NewestIn(b, k) ==
  IF \E e \in b : e[1] = k
    THEN CHOOSE v \in {e[2] : e \in {x \in b : x[1] = k}} :
           \A e \in b : e[1] = k => e[2] <= v
    ELSE -1

\* select!: notify_rx.recv() completes first, and the notification is
\* written. The read_line future of this select! is dropped; `took` says that
\* it had been polled and held the first bytes of the next line, which go
\* with it.
Notify(took) ==
  /\ pc = "loop"
  /\ notifyQ # <<>>
  /\ took => (nRead < MaxLines /\ ~lost)
  /\ notifyQ' = Tail(notifyQ)
  /\ nOut' = nOut + 1
  /\ nNotif' = nNotif + 1
  /\ notified' = [k \in AllKeys |-> Max(notified[k], NewestIn(Head(notifyQ), k))]
  /\ lost' = (lost \/ took)
  /\ UNCHANGED <<pc, todo, graph, disk, nEdits, watchQ, nRead, line, iter, turn>>
  /\ UNCHANGED watcherVars
  /\ UNCHANGED skelVars

\* read_line returns Ok(0): EOF, break, Ok(()).
StdinEof ==
  /\ pc = "loop"
  /\ pc' = "done"
  /\ UNCHANGED <<todo, graph, disk, nEdits, watchQ, notifyQ, nRead, lost, line, iter,
                 turn, nOut, nNotif, notified>>
  /\ UNCHANGED watcherVars
  /\ UNCHANGED skelVars

\* read_line returns Err (the bytes of the line are not UTF-8): `res?` returns
\* the error from main.
StdinInvalidUtf8 ==
  /\ pc = "loop"
  /\ nRead < MaxLines
  /\ pc' = "crashed"
  /\ nRead' = nRead + 1
  /\ lost' = FALSE
  /\ UNCHANGED <<todo, graph, disk, nEdits, watchQ, notifyQ, line, iter, turn, nOut,
                 nNotif, notified>>
  /\ UNCHANGED watcherVars
  /\ UNCHANGED skelVars

\* The line in hand: (history) the line the client wrote, the line read, the
\* buffer that was parsed, and the line to write (None: nothing).
Turn(sent, raw, seen, resp) == Some([sent |-> sent, raw |-> raw, seen |-> seen, resp |-> resp])

\* The orders in which an iteration visits the shards of the keys: DashMap
\* hashes keys to shards with a randomly seeded hasher.
ShardOrders ==
  {<<KeyOf(WalkPath("a.ts")), KeyOf(WatchPath("a.ts")),
     KeyOf(WalkPath("b.tsx")), KeyOf(WatchPath("b.tsx"))>>,
   <<KeyOf(WatchPath("b.tsx")), KeyOf(WalkPath("b.tsx")),
     KeyOf(WatchPath("a.ts")), KeyOf(WalkPath("a.ts"))>>}

\* read_line returns a line, which is parsed and dispatched. A request that
\* iterates the Index goes on in IterStep, the others in Respond.
StdinLine(l) ==
  /\ pc = "loop"
  /\ nRead < MaxLines
  /\ l \in IF lost THEN RemainderSet ELSE LineSet(nRead + 1)
  /\ nRead' = nRead + 1
  /\ lost' = FALSE
  /\ line' = read_line(line, l)
  /\ LET r == ParseRequest(line') IN
       IF IsSome(r) /\ Iterates(r[1], graph)
         THEN /\ pc' = "iter"
              /\ \E order \in ShardOrders :
                   iter' = Some([req |-> r[1], raw |-> l, order |-> order, pos |-> 1,
                                 acc |-> <<>>, g0 |-> graph, hist |-> {graph}])
              /\ turn' = None
         ELSE /\ pc' = "respond"
              /\ iter' = None
              /\ \E sent \in (IF lost THEN SentSet(l, nRead + 1) ELSE {l}) :
                   turn' = Turn(sent, l, line',
                                IF IsSome(r) THEN Emit(r[1], Dispatch(r[1], graph, disk))
                                ELSE IF Trim(line') # <<>> THEN Some(ParseErrorJson)
                                ELSE None)
  /\ graph' = (IF IsSome(ParseRequest(line')) THEN IndexAfter(ParseRequest(line')[1], graph, disk)
                ELSE graph)
  /\ UNCHANGED <<todo, disk, nEdits, watchQ, notifyQ, nOut, nNotif, notified>>
  /\ UNCHANGED watcherVars
  /\ UNCHANGED skelVars

\* What visiting the shard of key k yields: its entry, when it is there.
Yield(acc, k, g) == IF k \in DOMAIN g THEN Append(acc, <<k, g[k]>>) ELSE acc

\* state.skeleton_graph.iter(): the iteration locks one shard after the other,
\* and the watcher task may insert in between. One step visits the shard of
\* one key; after the last, the request is dispatched.
IterStep ==
  /\ pc = "iter"
  /\ LET it == iter[1]
         acc == Yield(it.acc, it.order[it.pos], graph)
     IN /\ iter' = Some([it EXCEPT !.pos = @ + 1, !.acc = acc])
        /\ IF it.pos < Len(it.order)
             THEN UNCHANGED <<pc, turn>>
             ELSE /\ pc' = "respond"
                  /\ turn' = Turn(it.raw, it.raw, line, Emit(it.req, IterOutcome(it.req, acc)))
  /\ UNCHANGED <<todo, graph, disk, nEdits, watchQ, notifyQ, nRead, lost, line, nOut, nNotif,
                 notified>>
  /\ UNCHANGED watcherVars
  /\ UNCHANGED skelVars

\* stdout.write_all(..), flush() of the response, if there is one, and
\* line.clear().
Respond ==
  /\ pc = "respond"
  /\ nOut' = nOut + Len(turn[1].resp)
  /\ line' = ClearLine(line)
  /\ pc' = "loop"
  /\ turn' = None
  /\ iter' = None
  /\ UNCHANGED <<todo, graph, disk, nEdits, watchQ, notifyQ, nRead, lost, nNotif, notified>>
  /\ UNCHANGED watcherVars
  /\ UNCHANGED skelVars

\* ---------------------------------------------------------------- specification

Next ==
  \/ \E f \in Files : SweepFile(f)
  \/ SpawnWatcher
  \/ \E e \in EventSet, ok \in BOOLEAN : FsChange(e, ok)
  \/ \E ok \in BOOLEAN : WatcherStart(ok)
  \/ WatcherRecv
  \/ WatcherPath
  \/ WatcherSend
  \/ \E took \in BOOLEAN : Notify(took)
  \/ StdinEof
  \/ StdinInvalidUtf8
  \/ \E l \in LineSet(nRead + 1) : StdinLine(l)
  \/ IterStep
  \/ Respond

Spec == Init /\ [][Next]_vars

\* The scheduling the runtime gives: a spawned task that can take a step
\* takes it, the server loop goes on with the request in hand, and select!
\* polls its branches in random order, so that a tick that is ready again and
\* again is received. Nothing is assumed of stdin or of the filesystem.
Fairness ==
  /\ WF_vars(\E ok \in BOOLEAN : WatcherStart(ok))
  /\ WF_vars(WatcherRecv)
  /\ WF_vars(WatcherPath)
  /\ WF_vars(WatcherSend)
  /\ WF_vars(IterStep)
  /\ WF_vars(Respond)
  /\ SF_vars(\E took \in BOOLEAN : Notify(took))

FairSpec == Spec /\ Fairness

\* ---------------------------------------------------------------- skeletonize_file

\* skeletonize_file, on its own: parse_file has returned a module.
SkelInit ==
  /\ ServerInit
  /\ parsed \in ModuleSet
  /\ ast = parsed
  /\ stage = "parsed"
  /\ ir = DefaultSkeleton

\* module.visit_mut_with(&mut skeletonizer)
SkeletonizerPass ==
  /\ stage = "parsed"
  /\ ast' = visit_mut_module_items(ast)
  /\ stage' = "visited"
  /\ UNCHANGED <<parsed, ir>>
  /\ UNCHANGED serverVars

\* Ok(extract_ir(&module, cm))
ExtractIr ==
  /\ stage = "visited"
  /\ ir' = extract_ir(ast)
  /\ stage' = "extracted"
  /\ UNCHANGED <<parsed, ast>>
  /\ UNCHANGED serverVars

SkelNext ==
  \/ SkeletonizerPass
  \/ ExtractIr

SkelSpec == SkelInit /\ [][SkelNext]_vars

\* ---------------------------------------------------------------- properties

\* The line in hand and the request it parsed as.
InHand == pc = "respond"
HandRequest == ParseRequest(turn[1].seen)
HandResponse == turn[1].resp
HandIsRequest(method) == InHand /\ IsSome(HandRequest) /\ HandRequest[1].method = method
HandUri ==
  IF IsSome(HandRequest[1].params) THEN HandRequest[1].params[1].uri ELSE None

\* C1: nothing is written to stdout, no stdin line is read, no tick is
\* received and the watcher task is not started before perform_initial_sweep
\* has walked every file and returned.
C1_SweepFirst ==
  (nOut > 0 \/ nRead > 0 \/ nNotif > 0 \/ wpc # "off" \/ pc \notin {"sweep", "spawn"})
    => (todo = {} /\ pc # "sweep")

\* C1 witness: a line has been written, after a sweep that indexed a file.
C1_Witness == nOut > 0 /\ todo = {} /\ DOMAIN graph # {}

\* C2 (as claimed): every Response written carries exactly one of result and
\* error.
C2_ExactlyOneOfResultError ==
  (InHand /\ IsSome(HandResponse))
    => (("result" \in DOMAIN HandResponse[1]) # ("error" \in DOMAIN HandResponse[1]))

\* C3: while a line that parsed as a Request without id is in hand, nothing is
\* written to stdout, whatever its method.
C3_NoIdNoResponse ==
  [][(InHand /\ IsSome(HandRequest) /\ ~IsSome(HandRequest[1].id)) => nOut' = nOut]_vars

\* C3 witness: a request without id whose method is unknown is in hand, and
\* there is nothing to write for it.
C3_Witness ==
  /\ HandIsRequest("bogus")
  /\ ~IsSome(HandRequest[1].id)
  /\ HandResponse = None

\* C4: a line that is not JSON is answered by exactly one response, with id
\* null and error -32700 "Parse error", and the loop goes on with an empty
\* line buffer; every line in hand was parsed on its own.
C4_ParseError ==
  [][/\ InHand => turn[1].seen = <<turn[1].raw>>
     /\ (InHand /\ turn[1].raw.kind = "malformed")
          => /\ HandResponse = Some(ParseErrorJson)
             /\ HandResponse[1]["id"] = None
             /\ HandResponse[1]["error"] = Some(Error(-32700, "Parse error"))
             /\ "result" \notin DOMAIN HandResponse[1]
             /\ nOut' = nOut + 1
             /\ pc' = "loop"
             /\ line' = <<>>]_vars

\* C4 witness: the second line read is not JSON and is in hand.
C4_Witness == InHand /\ turn[1].raw.kind = "malformed" /\ nRead = 2

\* C5 (as claimed): the server loop ends only when stdin reaches EOF.
C5_LoopEndsOnlyAtEof == pc # "crashed"

\* The Index when the request in hand was dispatched, the graphs it has held
\* since, and the pairs of a graph.
IndexAtDispatch == IF IsSome(iter) THEN iter[1].g0 ELSE graph
IndexSince == IF IsSome(iter) THEN iter[1].hist ELSE {graph}
Pairs(g) == {<<k, g[k]>> : k \in DOMAIN g}
IsGlobalRead ==
  HandIsRequest("resources/read") /\ HandUri = Some(GlobalUri) /\ IsSome(HandResponse)
IsList == HandIsRequest("resources/list") /\ IsSome(HandResponse)

\* C6 (as claimed): a read of the global URI fails with -32603 exactly when
\* the Index is empty when the request tests it, and otherwise returns the
\* map of every (key, skeleton) pair of the Index, as the Index was at some
\* moment of the request.
C6_GlobalReadIsTheIndex ==
  IsGlobalRead =>
    LET j == HandResponse[1] IN
    /\ ("error" \in DOMAIN j) <=> (DOMAIN IndexAtDispatch = {})
    /\ "result" \in DOMAIN j => \E g \in IndexSince : j["result"][1].map = Pairs(g)

\* C6 (amended): a read of the global URI fails with -32603 "Graph is empty.
\* No files scanned or found." exactly when the Index is empty when the
\* request tests it; otherwise it returns a map with one pair for every key
\* the Index had then, only for keys the Index has when the response is
\* written, each with a skeleton the Index held for that key during the
\* request; it is the map of the whole Index when the watcher task inserts
\* nothing meanwhile.
C6_GlobalRead ==
  IsGlobalRead =>
    LET j == HandResponse[1] IN
    /\ ("error" \in DOMAIN j) <=> (DOMAIN IndexAtDispatch = {})
    /\ ("error" \in DOMAIN j) # ("result" \in DOMAIN j)
    /\ "error" \in DOMAIN j
         => j["error"] = Some(Error(-32603, "Graph is empty. No files scanned or found."))
    /\ "result" \in DOMAIN j
         => LET m == j["result"][1].map IN
            /\ j["result"][1].uri = GlobalUri
            /\ \A k \in DOMAIN IndexAtDispatch : \E e \in m : e[1] = k
            /\ \A e \in m : e[1] \in DOMAIN graph
            /\ \A e \in m : \E g \in IndexSince : e[1] \in DOMAIN g /\ g[e[1]] = e[2]
            /\ \A e1, e2 \in m : e1[1] = e2[1] => e1 = e2
            /\ Cardinality(IndexSince) = 1 => m = Pairs(graph)

\* C6 witness: a global read returns a map while the watcher task has
\* inserted during the request.
C6_Witness ==
  /\ IsGlobalRead
  /\ "result" \in DOMAIN HandResponse[1]
  /\ Cardinality(IndexSince) > 1

\* C7 (as claimed): a read of skeleton://project/file/<path> looks up the
\* verbatim remainder after the single prefix: the skeleton of that key when
\* it is an Index key, -32602 "File not found in graph." when it is not; any
\* other URI than the global one gets -32602 "Invalid URI scheme for
\* resource.".
C7_FileReadVerbatimPath ==
  (HandIsRequest("resources/read") /\ IsSome(HandUri) /\ HandUri # Some(GlobalUri)
     /\ IsSome(HandResponse))
    => LET uri == HandUri[1]
           j == HandResponse[1]
           path == StripPrefix(uri, FilePrefix)
       IN IF StartsWith(uri, FilePrefix)
            THEN IF path \in DOMAIN graph
                   THEN /\ "result" \in DOMAIN j
                        /\ j["result"][1].skeleton = graph[path]
                   ELSE /\ "error" \in DOMAIN j
                        /\ j["error"] = Some(Error(-32602, "File not found in graph."))
            ELSE /\ "error" \in DOMAIN j
                 /\ j["error"] = Some(Error(-32602, "Invalid URI scheme for resource."))

\* C8 (as claimed): the list holds the global entry first and then exactly one
\* entry per Index key, |Index| + 1 entries, also when the watcher task
\* inserts while the list is built (the Index taken at some moment of the
\* request).
C8_ListIsTheIndex ==
  IsList =>
    LET j == HandResponse[1] IN
    /\ "result" \in DOMAIN j
    /\ \E g \in IndexSince :
         LET rs == j["result"][1].resources IN
         /\ Len(rs) = Cardinality(DOMAIN g) + 1
         /\ rs[1] = GlobalUri
         /\ \A k \in DOMAIN g : \E i \in 2..Len(rs) : rs[i] = FileUri(k)

\* C8 (amended): the list holds the global entry, first and once, and then
\* at most one entry per key: one for every key the Index had when the
\* request was dispatched, and only for keys the Index has when the response
\* is written; it has |Index| + 1 entries when the watcher task inserts no
\* new key while the list is built.
C8_ResourcesList ==
  IsList =>
    LET j == HandResponse[1] IN
    /\ "result" \in DOMAIN j
    /\ "error" \notin DOMAIN j
    /\ LET rs == j["result"][1].resources IN
       /\ Len(rs) >= 1
       /\ rs[1] = GlobalUri
       /\ \A i \in 2..Len(rs) : \E k \in DOMAIN graph : rs[i] = FileUri(k)
       /\ \A i1, i2 \in 2..Len(rs) : rs[i1] = rs[i2] => i1 = i2
       /\ \A k \in DOMAIN IndexAtDispatch : \E i \in 2..Len(rs) : rs[i] = FileUri(k)
       /\ DOMAIN IndexAtDispatch = DOMAIN graph => Len(rs) = Cardinality(DOMAIN graph) + 1

\* C8 witness: a list is returned that misses a key the watcher task inserted
\* while it was built.
C8_Witness ==
  /\ IsList
  /\ "result" \in DOMAIN HandResponse[1]
  /\ Len(HandResponse[1]["result"][1].resources) < Cardinality(DOMAIN graph) + 1

\* C9 (as claimed): a tick the watcher task has sent is followed by its
\* notification on stdout unless stdin reaches EOF, and the watcher task does
\* not stay blocked in send while the server loop runs.
C9_TickLeadsToNotification ==
  /\ \A n \in 1..MaxEdits : (nTicks >= n) ~> (nNotif >= n \/ pc = "done")
  /\ (wpc = "send") ~> (wpc # "send" \/ pc \in {"done", "crashed"})

\* C10: a read of skeleton://project/file/K, made after a notification for a
\* watcher write to K was written, returns the skeleton of that write or of a
\* later one.
C10_ReadAfterNotification ==
  \A k \in AllKeys :
    (HandIsRequest("resources/read") /\ HandUri = Some(FileUri(k)) /\ IsSome(HandResponse)
       /\ notified[k] >= 0)
      => LET j == HandResponse[1] IN
         /\ "result" \in DOMAIN j
         /\ j["result"][1].skeleton.file = k[Len(k)]
         /\ j["result"][1].skeleton.ver >= notified[k]

\* C10 witness: such a read is in hand, of a key notified once and written
\* again since.
C10_Witness ==
  \E k \in AllKeys :
    /\ HandIsRequest("resources/read")
    /\ HandUri = Some(FileUri(k))
    /\ IsSome(HandResponse)
    /\ notified[k] >= 0
    /\ "result" \in DOMAIN HandResponse[1]
    /\ HandResponse[1]["result"][1].skeleton.ver > notified[k]

\* C11 (as claimed): every line written to stdout is one complete JSON
\* document, a Response or a Notification: the lines on stdout are the nOut
\* documents the server loop wrote, and nothing else.
C11_StdoutIsJsonDocuments == nLog = 0

\* C12 (as claimed): when the watcher cannot be established at startup, the
\* process ends with a non-zero exit code: main does not return Ok(()).
C12_WatcherFailureIsFatal == ~(wpc = "failed" /\ pc = "done")

\* C13 (as claimed): no entry of `imports` of a skeleton skeletonize_file
\* produced references a module source containing .css, .scss or .svg, be
\* the entry an ES import declaration or a TS import-equals declaration.
C13_NoStyleImports ==
  stage = "extracted"
    => \A i \in 1..Len(ir["imports"]) :
         /\ ~Contains(ir["imports"][i], ".css")
         /\ ~Contains(ir["imports"][i], ".scss")
         /\ ~Contains(ir["imports"][i], ".svg")

\* The field the data model names for a kind of top-level item, "" for none.
FieldOfKind(kind) ==
  CASE kind = "Fn" -> "functions"
    [] kind = "Class" -> "classes"
    [] kind = "Var" -> "variables"
    [] kind \in {"TsInterface", "TsTypeAlias", "TsEnum", "TsModule"} -> "interfaces"
    [] kind \in {"Import", "TsImportEquals"} -> "imports"
    [] kind \in {"ExportDecl", "ExportNamed", "ExportDefaultDecl", "ExportDefaultExpr",
                 "ExportAll", "TsExportAssignment", "TsNamespaceExport"} -> "exports"
    [] OTHER -> ""

\* A filtered style import, and the sum of the lengths of the six fields.
IsFilteredStyleImport(item) ==
  item.kind = "Import"
    /\ \E t \in {".css", ".scss", ".svg"} : Contains(item.src, t)
RECURSIVE SumLen(_, _)
SumLen(sk, fs) ==
  IF fs = {} THEN 0
  ELSE LET f == CHOOSE x \in fs : TRUE IN Len(sk[f]) + SumLen(sk, fs \ {f})

\* Every field holds, in source order, the printed items of the mutated
\* module whose kind the data model gives that field.
FieldsFollowDataModel ==
  \A f \in Fields :
    LET its == SelectSeq(ast, LAMBDA it : FieldOfKind(it.kind) = f)
    IN ir[f] = [i \in 1..Len(its) |-> stringify_item(its[i])]

\* C14 (as claimed): every top-level item of the parsed module other than a
\* bare statement or a filtered style import is routed into exactly one of
\* the six fields, in source order within the field, and into the field the
\* data model names for its kind.
C14_EveryItemInOneField ==
  stage = "extracted"
    => /\ FieldsFollowDataModel
       /\ SumLen(ir, Fields)
            = Len(SelectSeq(parsed, LAMBDA it : it.kind # "Stmt" /\ ~IsFilteredStyleImport(it)))

\* C14 (amended): every top-level item of the parsed module other than a bare
\* statement, a `using` declaration or a filtered style import is routed into
\* exactly one of the six fields, in source order within the field, and into
\* the field the data model names for its kind; bare statements and `using`
\* declarations are in no field.
C14_ExtractIrRouting ==
  stage = "extracted"
    => /\ FieldsFollowDataModel
       /\ SumLen(ir, Fields)
            = Len(SelectSeq(parsed, LAMBDA it : /\ it.kind \notin {"Stmt", "Using"}
                                                /\ ~IsFilteredStyleImport(it)))
       /\ \A i \in 1..Len(parsed) :
            parsed[i].kind \in {"Stmt", "Using"}
              => \A f \in Fields : \A j \in 1..Len(ir[f]) : ir[f][j][1] # parsed[i].kind

\* C14 witness: an enum and an interface were extracted, in that order, into
\* `interfaces`.
C14_Witness ==
  /\ stage = "extracted"
  /\ Len(parsed) = 2
  /\ parsed[1].kind = "TsEnum"
  /\ parsed[2].kind = "TsInterface"
  /\ ir["interfaces"] = <<stringify_item(parsed[1]), stringify_item(parsed[2])>>

\* Whether every function, method and arrow body in a node, itself included,
\* is an empty block (or absent).
RECURSIVE BodiesEmpty(_)
BodiesEmpty(n) ==
  /\ n.kind \in {"Fn", "FnExpr", "Arrow", "ClassMethod", "PrivateMethod", "MethodProp",
                  "Constructor"}
       => n.body \in {NoBody, Block(<<>>)}
  /\ \A i \in 1..Len(n.kids) : BodiesEmpty(n.kids[i])
  /\ n.body # NoBody => \A i \in 1..Len(n.body[2]) : BodiesEmpty(n.body[2][i])

\* C15 (as claimed): after the Skeletonizer pass every function, method and
\* arrow body in the module is an empty block, at every depth: function
\* declarations and expressions, class methods, private methods, getters,
\* setters and constructors, arrows, and the bodies nested in them.
C15_EveryBodyEmpty ==
  stage \in {"visited", "extracted"} => \A i \in 1..Len(ast) : BodiesEmpty(ast[i])

\* C16: the watcher task sends a tick only after the paths of a modify event,
\* one tick, and only when the event inserted an entry; an event that
\* inserted none is followed by the next recv without a tick; and the
\* watcher task does not leave the send of an event that inserted without
\* its tick.
C16_OneTickPerEvent ==
  [][/\ nTicks' # nTicks
          => (nTicks' = nTicks + 1 /\ wpc = "send" /\ wpc' = "recv" /\ batch # {})
     /\ (wpc = "paths" /\ wpc' # "paths")
          => wpc' = (IF batch' # {} THEN "send" ELSE "recv")
     /\ (wpc # "send" /\ wpc' = "send") => (wpc = "paths" /\ nTicks' = nTicks)
     /\ (wpc = "send" /\ wpc' # "send") => nTicks' = nTicks + 1]_vars

\* C16 witness: an event of three paths inserted two entries, and one tick
\* was sent for it.
C16_Witness == wpc = "recv" /\ Cardinality(batch) = 2 /\ nTicks = 1 /\ nEdits = 1

\* C17: when skeletonize_file fails for a .ts/.tsx path (the file does not
\* read or parse), in the initial sweep or in the watcher task, the Index is
\* left as it was, no tick is sent and none is due to that path, and the
\* sweep or the watcher task goes on with the next path or event.
C17_FailureLeavesIndex ==
  [][/\ (pc = "sweep" /\ todo' # todo
           /\ \A f \in todo \ todo' : f \in TsFiles /\ ~disk[f].ok)
          => /\ graph' = graph
             /\ nTicks' = nTicks
             /\ pc' = (IF todo' = {} THEN "spawn" ELSE "sweep")
     /\ (wpc = "paths" /\ cur' # cur
           /\ Head(cur)[Len(Head(cur))] \in TsFiles
           /\ ~disk[Head(cur)[Len(Head(cur))]].ok)
          => /\ graph' = graph
             /\ nTicks' = nTicks
             /\ changed' = changed
             /\ batch' = batch
             /\ cur' = Tail(cur)
             /\ wpc' = (IF cur' # <<>> THEN "paths" ELSE IF batch # {} THEN "send" ELSE "recv")]_vars

\* C17 witness: the watcher task has handled a modify event of a.ts that no
\* longer parses; the entry an earlier event inserted is still the Index's.
C17_Witness ==
  /\ wpc = "recv"
  /\ watchQ = <<>>
  /\ nEdits = 2
  /\ batch = {}
  /\ nTicks = 1
  /\ ~disk["a.ts"].ok
  /\ KeyOf(WatchPath("a.ts")) \in DOMAIN graph
  /\ graph[KeyOf(WatchPath("a.ts"))].ver < disk["a.ts"].ver

\* C18 (as claimed): a successful reskeletonize by the watcher task of a file
\* the sweep indexed overwrites the entry of that file: the watcher task uses
\* the key the sweep used, so that a file never has two Index entries.
C18_OneEntryPerFile ==
  \A k1, k2 \in DOMAIN graph : graph[k1].file = graph[k2].file => k1 = k2

\* The step in which the watcher task receives an event, and the one in which
\* it handles a path of an event.
RecvStep == wpc = "recv" /\ watchQ # <<>> /\ Len(watchQ') < Len(watchQ)
PathStep == wpc = "paths" /\ cur # <<>> /\ cur' = Tail(cur)

\* A path that is not a .ts/.tsx path is stepped over: no insert, no tick,
\* `changed` as it was.
OtherPathsIgnored ==
  (PathStep /\ Extension(Head(cur)[Len(Head(cur))]) \notin {"ts", "tsx"})
    => /\ graph' = graph
       /\ nTicks' = nTicks
       /\ changed' = changed
       /\ batch' = batch
       /\ wpc' = (IF cur' # <<>> THEN "paths" ELSE IF batch # {} THEN "send" ELSE "recv")

\* An event is received and not handled: the watcher task takes none of its
\* paths, the Index stays and no tick is sent.
EventIgnored ==
  /\ wpc' = "recv"
  /\ graph' = graph
  /\ nTicks' = nTicks
  /\ UNCHANGED <<cur, changed, batch, notifyQ>>

C20_RequestsLeaveIndex ==
  [][graph' # graph
       => \/ pc = "sweep" /\ todo' # todo
          \/ PathStep /\ UNCHANGED <<pc, nRead, line, turn, nOut, nNotif>>]_vars

\* C20 witness: a get_implementation call is in hand, answered with the dump
\* of a content of a.ts newer than the one the Index has under that path.
C20_Witness ==
  /\ HandIsRequest("tools/call")
  /\ IsSome(HandRequest[1].params)
  /\ HandRequest[1].params[1].name = Some("get_implementation")
  /\ IsSome(HandResponse)
  /\ "result" \in DOMAIN HandResponse[1]
  /\ KeyOf(WalkPath("a.ts")) \in DOMAIN graph
  /\ HandResponse[1]["result"][1].dump.ver > graph[KeyOf(WalkPath("a.ts"))].ver

\* C21 (as claimed): a line the client wrote that is a Request with an id gets
\* exactly one response, with that id, written before the next line is read
\* (so in the order of the lines); the line parsed is the line the client
\* wrote, also when a tick is handled between or during the reads.
C21_EveryRequestAnswered ==
  InHand =>
    LET s == turn[1].sent IN
    (s.kind = "request" /\ IsSome(s.id) /\ s.id # JsonNull)
      => /\ turn[1].seen = <<s>>
         /\ IsSome(HandResponse)
         /\ HandResponse[1]["id"] = s.id
         /\ s.id = Some(nRead)

\* C22: at every point, the notifications written are at most the ticks the
\* watcher task sent, which are at most the modify events that inserted an
\* entry into the Index; no notification is written before the first insert
\* of the watcher task.
C22_NotificationsBounded ==
  /\ nNotif <= nTicks
  /\ nTicks <= nInserting
  /\ nNotif > 0 => nInserting > 0

\* C22 witness: two modify events inserted; the tick of the first was sent
\* and its notification written, the tick of the second is still to send.
C22_Witness == nNotif = 1 /\ nTicks = 1 /\ nInserting = 2 /\ wpc = "send"

====
